---- MODULE Spec2Model ----
(***************************************************************************)
(* Book Management API: the books table (server/database.js), the five     *)
(* data-access operations and the five Express handlers                    *)
(* (server/routes/books.js).  Every SQL statement is one atomic step of    *)
(* the store; a handler is suspended between its statements, so the        *)
(* statements of concurrent requests interleave.                           *)
(***************************************************************************)
EXTENDS Integers, Sequences, FiniteSets, TLC

VARIABLES
    books,      \* the books table: rowid -> row
    seq,        \* sqlite_sequence of AUTOINCREMENT: largest rowid ever assigned
    now,        \* CURRENT_TIMESTAMP of the store, in whole seconds
    pc,         \* per connection: where its handler is suspended
    req,        \* per connection: the request being (or last) served
    local,      \* per connection: this.lastID, the row fetched by deleteBook,
                \* the message of the error the handler's catch received
    resp,       \* per connection: the response written by res.json
    sent,       \* history: id -> the body its INSERT was sent, until the row
                \* is updated or deleted
    solo,       \* history: per connection, no other request was in flight
                \* since its request arrived
    nreq,       \* number of requests received so far
    prior,      \* history: per connection, the row its UPDATE found, while the
                \* handler waits for the re-read
    boot,       \* where the startup code of database.js is
    page        \* the page of the frontend (BookManager)

vars ==
    <<books, seq, now, pc, req, local, resp, sent, solo, nreq, prior, boot,
      page>>

(* ------------------------------ bounds --------------------------------- *)

\* seconds the store clock may advance
MaxClock == 1
\* requests received in one run
MaxRequests == 2

\* clicks on the page's buttons (submit, edit, delete, refresh) in one run
MaxClicks == 3

\* the connections a run serves at once
Clients == {1, 2}

(* --------------------------- JSON / SQL values ------------------------- *)

Undef == [t |-> "undefined", s |-> "", n |-> 0]
Null == [t |-> "null", s |-> "", n |-> 0]
Str(x) == [t |-> "string", s |-> x, n |-> 0]
Num(k) == [t |-> "number", s |-> "", n |-> k]

\* JavaScript's !v
Falsy(v) ==
    \/ v.t \in {"undefined", "null"}
    \/ v.t = "string" /\ v.s = ""
    \/ v.t = "number" /\ v.n = 0

\* a binding that stores a missing field as the empty text
BindMissingAsEmpty(v) == IF v.t = "undefined" THEN Str("") ELSE v

\* node-sqlite3 binds a parameter: undefined and null are both bound as NULL
BindParam(v) == IF v.t = "undefined" THEN Null ELSE v

\* the texts of this model that SQLite reads as well-formed integer literals
IntegerLiterals ==
    {<<"1", 1>>, <<"2", 2>>, <<"3", 3>>, <<"4", 4>>, <<"5", 5>>, <<"6", 6>>,
     <<"7", 7>>, <<"8", 8>>, <<"9", 9>>, <<"1815", 1815>>, <<"1949", 1949>>,
     <<"1965", 1965>>}

\* NUMERIC/INTEGER affinity: a text that is an integer literal becomes that
\* integer, any other value is kept as it is
NumericAffinity(v) ==
    IF v.t = "string" /\ \E p \in IntegerLiterals : p[1] = v.s
    THEN Num((CHOOSE p \in IntegerLiterals : p[1] = v.s)[2])
    ELSE v

\* what the INSERT / UPDATE stores for the six business columns of a body
StoredFields(b) ==
    [title |-> BindParam(b.title),
     author |-> BindParam(b.author),
     isbn |-> BindParam(b.isbn),
     published_year |-> NumericAffinity(BindParam(b.published_year)),
     genre |-> BindParam(b.genre),
     description |-> BindParam(b.description)]

MkRow(id, f, created, updated) ==
    [id |-> id, title |-> f.title, author |-> f.author, isbn |-> f.isbn,
     published_year |-> f.published_year, genre |-> f.genre,
     description |-> f.description, created_at |-> created, updated_at |-> updated]

BusinessFields(r) ==
    [title |-> r.title, author |-> r.author, isbn |-> r.isbn,
     published_year |-> r.published_year, genre |-> r.genre,
     description |-> r.description]

(* ----------------------------- sample data ----------------------------- *)

Body(t, a, i, y, g, d) ==
    [title |-> t, author |-> a, isbn |-> i, published_year |-> y, genre |-> g,
     description |-> d]

sampleBooks ==
    << Body(Str("The Great Gatsby"), Str("F. Scott Fitzgerald"),
            Str("978-0-7432-7356-5"), Num(1925), Str("Fiction"),
            Str("A classic American novel")),
       Body(Str("To Kill a Mockingbird"), Str("Harper Lee"),
            Str("978-0-06-112008-4"), Num(1960), Str("Fiction"),
            Str("A story of racial injustice and childhood")),
       Body(Str("1984"), Str("George Orwell"), Str("978-0-452-28423-4"),
            Num(1949), Str("Dystopian Fiction"),
            Str("A dystopian social science fiction novel")),
       Body(Str("Pride and Prejudice"), Str("Jane Austen"),
            Str("978-0-14-143951-8"), Num(1813), Str("Romance"),
            Str("A romantic novel of manners")) >>

\* the table a first start leaves: the table was empty, so the samples went in
SeededTable ==
    [i \in 1..Len(sampleBooks) |-> MkRow(i, StoredFields(sampleBooks[i]), 0, 0)]

\* a database file kept from an earlier run in which every sample but
\* '1984' was deleted: the table is not empty, so the start adds nothing
KeptTable == [i \in {3} |-> SeededTable[i]]

\* the table of a service from which the sample '1984' has been deleted
FreedTable == [i \in {1, 2, 4} |-> SeededTable[i]]

(* --------------------------- request inputs ---------------------------- *)

NoBody == Body(Undef, Undef, Undef, Undef, Undef, Undef)

Bodies ==
    { \* all six fields, a fresh isbn
      Body(Str("Dune"), Str("Frank Herbert"), Str("978-0-441-17271-9"),
           Num(1965), Str("SF"), Str("Arrakis")),
      \* title and author only
      Body(Str("Minimal Test Book"), Str("Minimal Author"), Undef, Undef, Undef,
           Undef),
      \* the isbn of the sample '1984'
      Body(Str("1984"), Str("George Orwell"), Str("978-0-452-28423-4"), Undef,
           Undef, Undef),
      \* as the page's form sends it: the year a text, every empty input null
      Body(Str("Emma"), Str("Jane Austen"), Null, Str("1815"), Null, Null),
      \* title missing
      Body(Undef, Str("Another Author"), Str("978-0-441-17271-9"), Undef, Undef,
           Undef),
      \* author empty
      Body(Str("Another Test Book"), Str(""), Undef, Undef, Undef, Undef) }

\* path values of :id -- the sample '1984', the first two ids a run assigns
\* (6 is assigned by no run that makes fewer than two inserts), and a value
\* that is no number
IdParams == {"3", "5", "6", "invalid-id"}

(* ------------------------------ the store ------------------------------ *)

\* SELECT * FROM books WHERE id = ? with the path value bound as a text: the
\* INTEGER column makes SQLite read the text as a number where it is one
SelectById(tbl, idText) ==
    LET key == NumericAffinity(Str(idText))
    IN IF key.t = "number" /\ key.n \in DOMAIN tbl THEN <<tbl[key.n]>> ELSE <<>>

\* a uniqueness that is enforced on inserts only (self = 0)
UniqueOnInsertOnly(tbl, isbn, self) ==
    /\ self = 0
    /\ isbn.t # "null"
    /\ \E i \in DOMAIN tbl : tbl[i].isbn = isbn

\* a uniqueness that is enforced on updates only (self # 0)
UniqueOnUpdateOnly(tbl, isbn, self) ==
    /\ self # 0
    /\ isbn.t # "null"
    /\ \E i \in DOMAIN tbl \ {self} : tbl[i].isbn = isbn

\* a uniqueness that keeps the isbn of a sample reserved after the sample's row
\* is deleted or has its isbn changed
UniqueOverEverHeld(tbl, isbn, self) ==
    /\ isbn.t # "null"
    /\ \/ \E i \in DOMAIN tbl \ {self} : tbl[i].isbn = isbn
       \/ \E k \in 1..Len(sampleBooks) :
             /\ BindParam(sampleBooks[k].isbn) = isbn
             /\ k \notin DOMAIN tbl \/ tbl[k].isbn # isbn

\* isbn TEXT UNIQUE: a non-NULL isbn held by a row other than self
UniqueViolation(tbl, isbn, self) ==
    /\ isbn.t # "null"
    /\ \E i \in DOMAIN tbl \ {self} : tbl[i].isbn = isbn

UniqueError == "SQLITE_CONSTRAINT: UNIQUE constraint failed: books.isbn"

\* a test for a text the store's message does not hold
IncludesUniqueViolation(msg) == msg \in {"UNIQUE violation"}

\* error.message.includes('UNIQUE constraint failed')
IncludesUniqueConstraintFailed(msg) == msg \in {UniqueError}

\* a rowid column without AUTOINCREMENT: one more than the largest rowid in
\* the table, whatever was assigned before
NextRowidOfTable(tbl, s) ==
    LET largest == CHOOSE m \in DOMAIN tbl \cup {0} :
                       \A k \in DOMAIN tbl \cup {0} : k <= m
    IN largest + 1

\* INTEGER PRIMARY KEY AUTOINCREMENT: one more than the largest rowid ever used
NextRowid(tbl, s) ==
    LET largest == CHOOSE m \in DOMAIN tbl \cup {s} :
                       \A k \in DOMAIN tbl \cup {s} : k <= m
    IN largest + 1

\* the table after a row is inserted: both timestamps default to
\* CURRENT_TIMESTAMP
InsertRow(tbl, id, b, t) ==
    [i \in DOMAIN tbl \cup {id} |->
        IF i = id THEN MkRow(id, StoredFields(b), t, t) ELSE tbl[i]]

\* an update that stamps created_at as well
UpdateRowStampingBoth(tbl, id, b, t) ==
    [tbl EXCEPT ![id] = MkRow(id, StoredFields(b), t, t)]

\* an update that keeps the old value of a column the body leaves out
\* (SET isbn = COALESCE(?, isbn), ...)
UpdateRowMerging(tbl, id, b, t) ==
    LET new == StoredFields(b)
        old == BusinessFields(tbl[id])
        merged == [f \in DOMAIN new |->
                      IF new[f].t = "null" THEN old[f] ELSE new[f]]
    IN [tbl EXCEPT ![id] = MkRow(id, merged, tbl[id].created_at, t)]

\* an update that leaves updated_at as it was
UpdateRowKeepingStamp(tbl, id, b, t) ==
    [tbl EXCEPT ![id] = MkRow(id, StoredFields(b), tbl[id].created_at,
                              tbl[id].updated_at)]

\* the table after a row's six columns and updated_at are overwritten
UpdateRow(tbl, id, b, t) ==
    [tbl EXCEPT ![id] = MkRow(id, StoredFields(b), tbl[id].created_at, t)]

\* the table without a row
DeleteRow(tbl, id) == [i \in DOMAIN tbl \ {id} |-> tbl[i]]

\* INSERT INTO books (title, author, isbn, published_year, genre, description)
\* VALUES (?, ?, ?, ?, ?, ?): the error, this.lastID, and the store after it
InsertStatement(tbl, s, b, t) ==
    IF UniqueViolation(tbl, BindParam(b.isbn), 0)
    THEN [error |-> UniqueError, lastID |-> 0, table |-> tbl, seq |-> s]
    ELSE LET id == NextRowid(tbl, s)
         IN [error |-> "", lastID |-> id, table |-> InsertRow(tbl, id, b, t),
             seq |-> id]

\* an update written as INSERT OR REPLACE: an id that matches no row gets one
UpsertStatement(tbl, idText, b, t) ==
    LET hit == SelectById(tbl, idText)
        key == NumericAffinity(Str(idText))
    IN IF hit # <<>>
       THEN [error |-> "", changes |-> 1,
             table |-> UpdateRow(tbl, hit[1].id, b, t)]
       ELSE [error |-> "", changes |-> 1,
             table |-> InsertRow(tbl, IF key.t = "number" THEN key.n ELSE 0, b, t)]

\* UPDATE books SET title = ?, ..., updated_at = CURRENT_TIMESTAMP WHERE id = ?:
\* the error, this.changes, and the table after it
UpdateStatement(tbl, idText, b, t) ==
    LET hit == SelectById(tbl, idText)
    IN IF hit = <<>> THEN [error |-> "", changes |-> 0, table |-> tbl]
       ELSE IF UniqueViolation(tbl, BindParam(b.isbn), hit[1].id)
       THEN [error |-> UniqueError, changes |-> 0, table |-> tbl]
       ELSE [error |-> "", changes |-> 1,
             table |-> UpdateRow(tbl, hit[1].id, b, t)]

\* a DELETE that lost its WHERE clause
DeleteEveryRow(tbl, idText) == [i \in {} |-> tbl[i]]

\* DELETE FROM books WHERE id = ?: the table after it
DeleteStatement(tbl, idText) ==
    LET hit == SelectById(tbl, idText)
    IN IF hit = <<>> THEN tbl ELSE DeleteRow(tbl, hit[1].id)

\* SQL leaves the order of rows with equal created_at to the store; the scan
\* behind the sort yields them by ascending or by descending rowid
TieOrders == {"rowid asc", "rowid desc"}

\* r comes before q in ORDER BY created_at DESC
Before(r, q, tie) ==
    \/ r.created_at > q.created_at
    \/ /\ r.created_at = q.created_at
       /\ IF tie = "rowid asc" THEN r.id < q.id ELSE r.id > q.id

RECURSIVE OrderRows(_, _)
OrderRows(rows, tie) ==
    IF rows = {} THEN <<>>
    ELSE LET first == CHOOSE r \in rows :
                          \A q \in rows \ {r} : Before(r, q, tie)
         IN <<first>> \o OrderRows(rows \ {first}, tie)

\* a listing that leaves out the rows without an isbn
SelectAllWithIsbn(tbl, tie) ==
    OrderRows({tbl[i] : i \in {k \in DOMAIN tbl : tbl[k].isbn.t # "null"}}, tie)

\* SELECT * FROM books ORDER BY created_at DESC
SelectAll(tbl, tie) == OrderRows({tbl[i] : i \in DOMAIN tbl}, tie)

(* ------------------------------ responses ------------------------------ *)

\* res.status(status).json({success, message, data, total, error}); kind tells
\* the shape of data: none, one book, an array of books, {deletedBook}
Response(status, success, message, kind, data, total, error) ==
    [status |-> status, success |-> success, message |-> message, kind |-> kind,
     data |-> data, total |-> total, error |-> error]

NoResponse == Response(0, FALSE, "", "none", <<>>, -1, "")

TitleAndAuthorRequired ==
    Response(400, FALSE, "Title and author are required", "none", <<>>, -1, "")

IsbnAlreadyExists ==
    Response(400, FALSE, "ISBN already exists", "none", <<>>, -1, "")

BookNotFound == Response(404, FALSE, "Book not found", "none", <<>>, -1, "")

\* a catch block that takes every error for an isbn conflict
CatchAllAs400(generic, msg) == IsbnAlreadyExists

\* the catch block of the create and update handlers
CatchWrite(generic, msg) ==
    IF IncludesUniqueConstraintFailed(msg) THEN IsbnAlreadyExists
    ELSE Response(500, FALSE, generic, "none", <<>>, -1, msg)

\* the catch block of the list, get and delete handlers
CatchRead(generic, msg) == Response(500, FALSE, generic, "none", <<>>, -1, msg)

\* the catch block of the handler of op
CatchAnswer(op, msg) ==
    CASE op = "list" -> CatchRead("Error retrieving books", msg)
      [] op = "get" -> CatchRead("Error retrieving book", msg)
      [] op = "post" -> CatchWrite("Error creating book", msg)
      [] op = "put" -> CatchWrite("Error updating book", msg)
      [] op = "delete" -> CatchRead("Error deleting book", msg)

\* res.json({success: true, data: books, total: books.length})
BooksResponse(rows) == Response(200, TRUE, "", "books", rows, Len(rows), "")

\* a db.get result (no row or one row) as the data of a response: JSON drops
\* a data that is undefined
RowResponse(status, message, got) ==
    Response(status, TRUE, message, IF got = <<>> THEN "none" ELSE "book", got,
             -1, "")

\* a delete that answers 204 No Content
DeletedResponse204(book) ==
    Response(204, TRUE, "Book deleted successfully", "deletedBook", book, -1, "")

DeletedResponse(book) ==
    Response(200, TRUE, "Book deleted successfully", "deletedBook", book, -1, "")

\* a validation that forgets the author
MissingTitleOnly(b) == Falsy(b.title)

\* if (!title || !author)
MissingRequired(b) == Falsy(b.title) \/ Falsy(b.author)

(* ------------------------------ the page ------------------------------- *)

\* the six inputs of the form, each holding a text
Form(t, a, i, y, g, d) ==
    [title |-> t, author |-> a, isbn |-> i, published_year |-> y, genre |-> g,
     description |-> d]

\* document.getElementById('bookForm').reset()
BlankForm == Form("", "", "", "", "", "")

\* what a user types into the form
FormInputs ==
    { Form("Dune", "Frank Herbert", "978-0-441-17271-9", "1965", "SF", "Arrakis"),
      \* the isbn of the sample '1984'
      Form("Animal Farm", "George Orwell", "978-0-452-28423-4", "", "", ""),
      \* no author
      Form("Another Test Book", "", "", "", "", "") }

\* input.value || null
ValueOrNull(text) == IF text = "" THEN Null ELSE Str(text)

\* formData of handleSubmit: title and author as typed, an empty input of the
\* other four as null
FormData(form) ==
    Body(Str(form.title), Str(form.author), ValueOrNull(form.isbn),
         ValueOrNull(form.published_year), ValueOrNull(form.genre),
         ValueOrNull(form.description))

\* `${id}`: a number as its text
NumberText(k) == (CHOOSE p \in IntegerLiterals : p[2] = k)[1]

\* input.value = v || '': the input holds a text, a number as its digits and
\* null as the empty text
InputValue(v) ==
    IF v.t = "string" THEN v.s
    ELSE IF v.t = "number" /\ v.n # 0 THEN NumberText(v.n)
    ELSE ""

\* editBook fills the form with book data
FormOf(book) ==
    Form(InputValue(book.title), InputValue(book.author), InputValue(book.isbn),
         InputValue(book.published_year), InputValue(book.genre),
         InputValue(book.description))

\* the method of the page that awaits the response on a connection, and the id
\* it was called with
Awaits(op, id) == [op |-> op, id |-> id]

NoAwait == Awaits("none", 0)

\* the page after its constructor: not editing (editingId 0 is null), the form
\* blank, no book displayed, nothing awaited
PageLoaded ==
    [editingId |-> 0, form |-> BlankForm, shown |-> {},
     waits |-> [c \in Clients |-> NoAwait], clicks |-> 0]

\* the books whose buttons the user clicks
PageIds == {3, 5}

\* displayBooks(result.data): the ids of the books that get an Edit and a
\* Delete button
Displayed(r) == {r.data[k].id : k \in 1..Len(r.data)}

(* ------------------------------ handlers ------------------------------- *)

InFlight(c) == pc[c] \notin {"idle", "done"}

NoLocal == [lastID |-> 0, book |-> <<>>, error |-> ""]

Request(op, id, b) == [op |-> op, id |-> id, body |-> b]

\* a request is served on the first connection that has no request in flight
CanReceive(c) ==
    /\ nreq < MaxRequests
    /\ ~InFlight(c)
    /\ \A d \in Clients : d < c => InFlight(d)

\* a request reaches its handler on c, which runs to its first await (to) or
\* to its response (answer)
Handle(c, r, to, answer) ==
    /\ nreq' = nreq + 1
    /\ req' = [req EXCEPT ![c] = r]
    /\ pc' = [pc EXCEPT ![c] = to]
    /\ resp' = [resp EXCEPT ![c] = answer]
    /\ local' = [local EXCEPT ![c] = NoLocal]
    /\ solo' = [d \in Clients |->
                 IF d = c THEN \A e \in Clients \ {c} : ~InFlight(e) ELSE FALSE]
    /\ UNCHANGED <<books, seq, now, sent, prior, boot>>

\* a request of a client that is not the page
Receive(c, r, to, answer) ==
    /\ Handle(c, r, to, answer)
    /\ UNCHANGED page

\* router.get('/') up to its await
GetAllHandler(c) == Handle(c, Request("list", "", NoBody), "all", NoResponse)

\* router.get('/:id') up to its await
GetOneHandler(c, id) == Handle(c, Request("get", id, NoBody), "get", NoResponse)

\* router.post('/') up to its await: validation, then createBook
PostHandler(c, b) ==
    IF MissingRequired(b)
    THEN Handle(c, Request("post", "", b), "done", TitleAndAuthorRequired)
    ELSE Handle(c, Request("post", "", b), "insert", NoResponse)

\* router.put('/:id') up to its await: validation, then updateBook
PutHandler(c, id, b) ==
    IF MissingRequired(b)
    THEN Handle(c, Request("put", id, b), "done", TitleAndAuthorRequired)
    ELSE Handle(c, Request("put", id, b), "update", NoResponse)

\* router.delete('/:id') up to its await
DeleteHandler(c, id) ==
    Handle(c, Request("delete", id, NoBody), "fetch", NoResponse)

\* router.get('/')
RouteGetAll(c) ==
    /\ CanReceive(c)
    /\ GetAllHandler(c)
    /\ UNCHANGED page

\* router.get('/:id')
RouteGetOne(c) ==
    /\ CanReceive(c)
    /\ \E id \in IdParams : GetOneHandler(c, id)
    /\ UNCHANGED page

\* router.post('/')
RoutePost(c) ==
    /\ CanReceive(c)
    /\ \E b \in Bodies : PostHandler(c, b)
    /\ UNCHANGED page

\* a router.put('/:id') that looks for the row before it validates the body
RoutePutExistenceFirst(c) ==
    /\ CanReceive(c)
    /\ \E id \in IdParams, b \in Bodies :
          IF SelectById(books, id) = <<>>
          THEN Receive(c, Request("put", id, b), "done", BookNotFound)
          ELSE IF MissingRequired(b)
          THEN Receive(c, Request("put", id, b), "done", TitleAndAuthorRequired)
          ELSE Receive(c, Request("put", id, b), "update", NoResponse)

\* router.put('/:id')
RoutePut(c) ==
    /\ CanReceive(c)
    /\ \E id \in IdParams, b \in Bodies : PutHandler(c, id, b)
    /\ UNCHANGED page

\* router.delete('/:id')
RouteDelete(c) ==
    /\ CanReceive(c)
    /\ \E id \in IdParams : DeleteHandler(c, id)
    /\ UNCHANGED page

\* the handler on c writes its response
Finish(c, answer) ==
    /\ pc' = [pc EXCEPT ![c] = "done"]
    /\ resp' = [resp EXCEPT ![c] = answer]
    /\ solo' = [solo EXCEPT ![c] = FALSE]
    /\ local' = [local EXCEPT ![c] = NoLocal]
    /\ UNCHANGED <<req, nreq>>

\* a handler without a try/catch: the rejection escapes and the request is
\* left without a response
RejectedUnhandled(c, msg) ==
    /\ pc' = [pc EXCEPT ![c] = "unhandled rejection"]
    /\ local' = [local EXCEPT ![c] = [NoLocal EXCEPT !.error = msg]]
    /\ solo' = [solo EXCEPT ![c] = FALSE]
    /\ UNCHANGED <<req, resp, nreq>>

\* a statement's callback gets an error: the promise is rejected with it (no
\* further statement runs) and the catch block of the handler on c answers
Rejected(c, msg) ==
    /\ pc' = [pc EXCEPT ![c] = "done"]
    /\ resp' = [resp EXCEPT ![c] = CatchAnswer(req[c].op, msg)]
    /\ solo' = [solo EXCEPT ![c] = FALSE]
    /\ local' = [local EXCEPT ![c] = [NoLocal EXCEPT !.error = msg]]
    /\ UNCHANGED <<req, nreq>>

\* getAllBooks: db.all runs, the handler answers
GetAllBooks(c) ==
    /\ pc[c] = "all"
    /\ \E tie \in TieOrders : Finish(c, BooksResponse(SelectAll(books, tie)))
    /\ UNCHANGED <<books, seq, now, sent, prior, boot, page>>

\* a handler that forgets the if (!book) test
GetOneAnswerUnchecked(book) == RowResponse(200, "", book)

\* router.get('/:id') after its await: if (!book) 404, else the book
GetOneAnswer(book) ==
    IF book = <<>> THEN BookNotFound ELSE RowResponse(200, "", book)

\* getBookById: db.get runs, the handler answers
GetBookById(c) ==
    /\ pc[c] = "get"
    /\ Finish(c, GetOneAnswer(SelectById(books, req[c].id)))
    /\ UNCHANGED <<books, seq, now, sent, prior, boot, page>>

\* the history of the rows that are as their INSERT wrote them: an id leaves it
\* when its row is no longer the row it was
StillSent(tbl) ==
    [i \in {k \in DOMAIN sent : k \in DOMAIN tbl /\ tbl[k] = books[k]} |->
        sent[i]]

\* createBook: the INSERT runs
CreateBookInsert(c) ==
    /\ pc[c] = "insert"
    /\ LET b == req[c].body
           ran == InsertStatement(books, seq, b, now)
       IN /\ books' = ran.table
          /\ seq' = ran.seq
          /\ IF ran.error # ""
             THEN /\ Rejected(c, ran.error)
                  /\ sent' = StillSent(ran.table)
             ELSE /\ sent' = [i \in DOMAIN StillSent(ran.table)
                                      \cup {ran.lastID} |->
                                 IF i = ran.lastID
                                 THEN [body |-> b, returned |-> <<>>]
                                 ELSE sent[i]]
                  /\ pc' = [pc EXCEPT ![c] = "reread"]
                  /\ local' = [local EXCEPT ![c].lastID = ran.lastID]
                  /\ UNCHANGED <<req, resp, solo, nreq>>
    /\ UNCHANGED <<now, prior, boot, page>>

\* createBook: the row is read back by this.lastID, the handler answers 201
CreateBookSelect(c) ==
    /\ pc[c] = "reread"
    /\ LET id == local[c].lastID
           row == IF id \in DOMAIN books THEN <<books[id]>> ELSE <<>>
       IN /\ Finish(c, RowResponse(201, "Book created successfully", row))
          /\ sent' = [i \in DOMAIN sent |->
                         IF i = id THEN [sent[i] EXCEPT !.returned = row]
                         ELSE sent[i]]
    /\ UNCHANGED <<books, seq, now, prior, boot, page>>

\* router.put('/:id') after its await: if (!updatedBook) 404, else the book
PutAnswer(book) ==
    IF book = <<>> THEN BookNotFound
    ELSE RowResponse(200, "Book updated successfully", book)

\* updateBook: the UPDATE runs
UpdateBookUpdate(c) ==
    /\ pc[c] = "update"
    /\ LET ran == UpdateStatement(books, req[c].id, req[c].body, now)
       IN /\ books' = ran.table
          /\ sent' = StillSent(ran.table)
          /\ IF ran.error # ""
             THEN Rejected(c, ran.error)
             ELSE IF ran.changes = 0
             THEN Finish(c, PutAnswer(<<>>))
             ELSE /\ pc' = [pc EXCEPT ![c] = "refetch"]
                  /\ UNCHANGED <<req, resp, solo, local, nreq>>
          /\ prior' = [prior EXCEPT ![c] =
                          IF ran.error = "" /\ ran.changes = 1
                          THEN SelectById(books, req[c].id) ELSE <<>>]
    /\ UNCHANGED <<seq, now, boot, page>>

\* updateBook: the row is read back, the handler answers
UpdateBookSelect(c) ==
    /\ pc[c] = "refetch"
    /\ Finish(c, PutAnswer(SelectById(books, req[c].id)))
    /\ prior' = [prior EXCEPT ![c] = <<>>]
    /\ UNCHANGED <<books, seq, now, sent, boot, page>>

\* deleteBook: the row is fetched first
DeleteBookSelect(c) ==
    /\ pc[c] = "fetch"
    /\ LET book == SelectById(books, req[c].id)
       IN IF book = <<>> THEN Finish(c, BookNotFound)
          ELSE /\ pc' = [pc EXCEPT ![c] = "remove"]
               /\ local' = [local EXCEPT ![c].book = book]
               /\ UNCHANGED <<req, resp, solo, nreq>>
    /\ UNCHANGED <<books, seq, now, sent, prior, boot, page>>

\* a deleteBook that looks at this.changes of its DELETE: no row removed, no
\* success reported
DeleteBookDeleteChecked(c) ==
    /\ pc[c] = "remove"
    /\ books' = DeleteStatement(books, req[c].id)
    /\ sent' = StillSent(DeleteStatement(books, req[c].id))
    /\ Finish(c, IF SelectById(books, req[c].id) = <<>> THEN BookNotFound
                 ELSE DeletedResponse(local[c].book))
    /\ UNCHANGED <<seq, now, prior, boot, page>>

\* deleteBook: the DELETE runs, the handler answers with the fetched row
DeleteBookDelete(c) ==
    /\ pc[c] = "remove"
    /\ books' = DeleteStatement(books, req[c].id)
    /\ sent' = StillSent(DeleteStatement(books, req[c].id))
    /\ Finish(c, DeletedResponse(local[c].book))
    /\ UNCHANGED <<seq, now, prior, boot, page>>

\* a second passes on the store's clock
Tick ==
    /\ now < MaxClock
    /\ now' = now + 1
    /\ UNCHANGED <<books, seq, pc, req, local, resp, sent, solo, nreq, prior,
                   boot, page>>

(* --------------------------- the page's steps -------------------------- *)

\* the page's fetch goes out on the first connection that serves no request
\* and whose response the page does not await
Busy(c) == InFlight(c) \/ page.waits[c].op # "none"

CanFetch(c) ==
    /\ page.clicks < MaxClicks
    /\ ~Busy(c)
    /\ \A d \in Clients : d < c => Busy(d)

Clicked(c, op, id) ==
    [page EXCEPT !.waits[c] = Awaits(op, id), !.clicks = page.clicks + 1]

\* the user types into the form
TypeForm ==
    /\ \E f \in FormInputs : f # page.form /\ page' = [page EXCEPT !.form = f]
    /\ UNCHANGED <<books, seq, now, pc, req, local, resp, sent, solo, nreq,
                   prior, boot>>

\* handleSubmit up to its await: updateBook(this.editingId, formData) if
\* (this.editingId), else createBook(formData)
HandleSubmit(c) ==
    /\ CanFetch(c)
    /\ IF page.editingId # 0
       THEN PutHandler(c, NumberText(page.editingId), FormData(page.form))
       ELSE PostHandler(c, FormData(page.form))
    /\ page' = Clicked(c, "submit", page.editingId)

\* a handleSubmit whose catch block resets the form as well
HandleSubmitDoneResetting(c) ==
    /\ page.waits[c].op = "submit"
    /\ pc[c] = "done"
    /\ IF resp[c].success
       THEN /\ GetAllHandler(c)
            /\ page' = [page EXCEPT !.form = BlankForm, !.editingId = 0,
                                    !.waits[c] = Awaits("load", 0)]
       ELSE /\ page' = [page EXCEPT !.form = BlankForm, !.editingId = 0,
                                    !.waits[c] = NoAwait]
            /\ UNCHANGED <<books, seq, now, pc, req, local, resp, sent, solo,
                           nreq, prior, boot>>

\* handleSubmit after its await: on success resetForm() and loadBooks(), on a
\* rejection showMessage only
HandleSubmitDone(c) ==
    /\ page.waits[c].op = "submit"
    /\ pc[c] = "done"
    /\ IF resp[c].success
       THEN /\ GetAllHandler(c)
            /\ page' = [page EXCEPT !.form = BlankForm, !.editingId = 0,
                                    !.waits[c] = Awaits("load", 0)]
       ELSE /\ page' = [page EXCEPT !.waits[c] = NoAwait]
            /\ UNCHANGED <<books, seq, now, pc, req, local, resp, sent, solo,
                           nreq, prior, boot>>

\* the refresh button: loadBooks up to its await
LoadBooks(c) ==
    /\ CanFetch(c)
    /\ GetAllHandler(c)
    /\ page' = Clicked(c, "load", 0)

\* loadBooks after its await: displayBooks(result.data), or the error text
LoadBooksDone(c) ==
    /\ page.waits[c].op = "load"
    /\ pc[c] = "done"
    /\ page' = [page EXCEPT !.waits[c] = NoAwait,
                            !.shown = IF resp[c].success THEN Displayed(resp[c])
                                      ELSE {}]
    /\ UNCHANGED <<books, seq, now, pc, req, local, resp, sent, solo, nreq,
                   prior, boot>>

\* the Edit button of a displayed book: editBook(id) up to its await
EditBook(c) ==
    /\ CanFetch(c)
    /\ \E id \in page.shown \cap PageIds :
          /\ GetOneHandler(c, NumberText(id))
          /\ page' = Clicked(c, "edit", id)

\* editBook after its await: on success the form is filled with the book and
\* editingId is the id, on a rejection showMessage only
EditBookDone(c) ==
    /\ page.waits[c].op = "edit"
    /\ pc[c] = "done"
    /\ page' = IF resp[c].success
               THEN [page EXCEPT !.form = FormOf(resp[c].data[1]),
                                 !.editingId = page.waits[c].id,
                                 !.waits[c] = NoAwait]
               ELSE [page EXCEPT !.waits[c] = NoAwait]
    /\ UNCHANGED <<books, seq, now, pc, req, local, resp, sent, solo, nreq,
                   prior, boot>>

\* the Delete button of a displayed book, confirmed: deleteBook(id) up to its
\* await
DeleteBook(c) ==
    /\ CanFetch(c)
    /\ \E id \in page.shown \cap PageIds :
          /\ DeleteHandler(c, NumberText(id))
          /\ page' = Clicked(c, "delete", id)

\* deleteBook after its await: on success showMessage and loadBooks(), on a
\* rejection showMessage only; editingId and the form are not touched
DeleteBookDone(c) ==
    /\ page.waits[c].op = "delete"
    /\ pc[c] = "done"
    /\ IF resp[c].success
       THEN /\ GetAllHandler(c)
            /\ page' = [page EXCEPT !.waits[c] = Awaits("load", 0)]
       ELSE /\ page' = [page EXCEPT !.waits[c] = NoAwait]
            /\ UNCHANGED <<books, seq, now, pc, req, local, resp, sent, solo,
                           nreq, prior, boot>>

\* the Cancel button: resetForm()
CancelEdit ==
    /\ page.editingId # 0 \/ page.form # BlankForm
    /\ page' = [page EXCEPT !.form = BlankForm, !.editingId = 0]
    /\ UNCHANGED <<books, seq, now, pc, req, local, resp, sent, solo, nreq,
                   prior, boot>>

(* ------------------------------- startup ------------------------------- *)

\* the position of the start: the COUNT is awaited ("count"), sample k is the
\* next to insert ("seed"), nothing is left to do ("ready"), or the process
\* has died ("crashed"); count is what the COUNT read (-1: not read in this
\* run) and added the number of rows the start has inserted
BootAt(at, k, count, added) ==
    [at |-> at, k |-> k, count |-> count, added |-> added]

\* a service whose start is over
Booted == BootAt("ready", 0, -1, 0)

\* the module is loaded: CREATE TABLE IF NOT EXISTS has run, the COUNT is queued
Booting == BootAt("count", 0, -1, 0)

\* a callback that seeds whatever the count is
CountBooksAlwaysSeeding ==
    /\ boot.at = "count"
    /\ boot' = BootAt("seed", 1, Cardinality(DOMAIN books), 0)
    /\ UNCHANGED <<books, seq, now, pc, req, local, resp, sent, solo, nreq,
                   prior, page>>

\* SELECT COUNT(*) as count FROM books and its callback: if (result.count
\* === 0) the four stmt.run calls are queued, else nothing more happens
CountBooks ==
    /\ boot.at = "count"
    /\ LET count == Cardinality(DOMAIN books)
       IN boot' = IF count = 0 THEN BootAt("seed", 1, count, 0)
                  ELSE BootAt("ready", 0, count, 0)
    /\ UNCHANGED <<books, seq, now, pc, req, local, resp, sent, solo, nreq,
                   prior, page>>

\* stmt.run(...book) for the next sample. The call has no callback: an error
\* of the statement is emitted as an 'error' event that nothing listens to,
\* which ends the process with the requests it was serving
SeedSample ==
    /\ boot.at = "seed"
    /\ LET ran == InsertStatement(books, seq, sampleBooks[boot.k], now)
       IN /\ books' = ran.table
          /\ seq' = ran.seq
          /\ sent' = StillSent(ran.table)
          /\ IF ran.error # ""
             THEN /\ boot' = [boot EXCEPT !.at = "crashed"]
                  /\ pc' = [c \in Clients |-> "crashed"]
             ELSE /\ boot' = BootAt(IF boot.k = Len(sampleBooks)
                                    THEN "ready" ELSE "seed",
                                    boot.k + 1, boot.count, boot.added + 1)
                  /\ pc' = pc
    /\ UNCHANGED <<now, req, local, resp, solo, nreq, prior, page>>

\* the errors, other than the isbn conflict, that a statement may end with
StoreErrors ==
    {"SQLITE_BUSY: database is locked", "SQLITE_IOERR: disk I/O error"}

\* the statement the handler on c waits for fails: it changes nothing and its
\* callback gets the error
StatementFails(c) ==
    /\ InFlight(c)
    /\ \E msg \in StoreErrors : Rejected(c, msg)
    /\ UNCHANGED <<books, seq, now, sent, prior, boot, page>>

(* ---------------------------- specification ---------------------------- *)

\* the service after its start, on a fresh database file or on a kept one
Init ==
    /\ books \in {SeededTable, KeptTable}
    /\ seq = Len(sampleBooks)
    /\ now = 0
    /\ pc = [c \in Clients |-> "idle"]
    /\ req = [c \in Clients |-> Request("none", "", NoBody)]
    /\ local = [c \in Clients |-> NoLocal]
    /\ resp = [c \in Clients |-> NoResponse]
    /\ sent = <<>>
    /\ solo = [c \in Clients |-> FALSE]
    /\ nreq = 0
    /\ prior = [c \in Clients |-> <<>>]
    /\ boot = Booted
    /\ page = PageLoaded

Next ==
    \/ \E c \in Clients : RouteGetAll(c)
    \/ \E c \in Clients : RouteGetOne(c)
    \/ \E c \in Clients : RoutePost(c)
    \/ \E c \in Clients : RoutePut(c)
    \/ \E c \in Clients : RouteDelete(c)
    \/ \E c \in Clients : GetAllBooks(c)
    \/ \E c \in Clients : GetBookById(c)
    \/ \E c \in Clients : CreateBookInsert(c)
    \/ \E c \in Clients : CreateBookSelect(c)
    \/ \E c \in Clients : UpdateBookUpdate(c)
    \/ \E c \in Clients : UpdateBookSelect(c)
    \/ \E c \in Clients : DeleteBookSelect(c)
    \/ \E c \in Clients : DeleteBookDelete(c)
    \/ Tick

Spec == Init /\ [][Next]_vars

\* the same service on a store whose statements may fail
NextFault ==
    \/ Next
    \/ \E c \in Clients : StatementFails(c)

\* the callback of the statement the handler on c waits for is called, with a
\* result or with an error
Continue(c) ==
    \/ GetAllBooks(c)
    \/ GetBookById(c)
    \/ CreateBookInsert(c)
    \/ CreateBookSelect(c)
    \/ UpdateBookUpdate(c)
    \/ UpdateBookSelect(c)
    \/ DeleteBookSelect(c)
    \/ DeleteBookDelete(c)
    \/ StatementFails(c)

\* node-sqlite3 calls the callback of every statement it is given
FaultSpec ==
    /\ Init
    /\ [][NextFault]_vars
    /\ \A c \in Clients : WF_vars(Continue(c))

\* the running service with the samples as seeded, or with the sample '1984'
\* deleted since
InitExample ==
    /\ books \in {SeededTable, FreedTable}
    /\ seq = Len(sampleBooks)
    /\ now = 0
    /\ pc = [c \in Clients |-> "idle"]
    /\ req = [c \in Clients |-> Request("none", "", NoBody)]
    /\ local = [c \in Clients |-> NoLocal]
    /\ resp = [c \in Clients |-> NoResponse]
    /\ sent = <<>>
    /\ solo = [c \in Clients |-> FALSE]
    /\ nreq = 0
    /\ prior = [c \in Clients |-> <<>>]
    /\ boot = Booted
    /\ page = PageLoaded

ExampleSpec == InitExample /\ [][Next]_vars

\* a database file whose table is empty after every row of an earlier run was
\* deleted: sqlite_sequence still holds the largest id used
EmptiedTable == [i \in {} |-> SeededTable[3]]

\* the process starts: on a new database file, on an emptied one, or on a kept
\* one that has a row
InitStart ==
    /\ \E file \in {<<EmptiedTable, 0>>, <<EmptiedTable, Len(sampleBooks)>>,
                     <<KeptTable, Len(sampleBooks)>>} :
          books = file[1] /\ seq = file[2]
    /\ now = 0
    /\ pc = [c \in Clients |-> "idle"]
    /\ req = [c \in Clients |-> Request("none", "", NoBody)]
    /\ local = [c \in Clients |-> NoLocal]
    /\ resp = [c \in Clients |-> NoResponse]
    /\ sent = <<>>
    /\ solo = [c \in Clients |-> FALSE]
    /\ nreq = 0
    /\ prior = [c \in Clients |-> <<>>]
    /\ boot = Booting
    /\ page = PageLoaded

\* the start runs while the server already takes requests
NextStart ==
    \/ Next
    \/ CountBooks
    \/ SeedSample

StartSpec == InitStart /\ [][NextStart]_vars

\* the page is opened on the seeded service: new BookManager() has run init(),
\* whose loadBooks() awaits its response
InitPage ==
    /\ books = SeededTable
    /\ seq = Len(sampleBooks)
    /\ now = 0
    /\ pc = [c \in Clients |-> IF c = 1 THEN "all" ELSE "idle"]
    /\ req = [c \in Clients |-> IF c = 1 THEN Request("list", "", NoBody)
                                 ELSE Request("none", "", NoBody)]
    /\ local = [c \in Clients |-> NoLocal]
    /\ resp = [c \in Clients |-> NoResponse]
    /\ sent = <<>>
    /\ solo = [c \in Clients |-> c = 1]
    /\ nreq = 1
    /\ prior = [c \in Clients |-> <<>>]
    /\ boot = Booted
    /\ page = [PageLoaded EXCEPT !.waits[1] = Awaits("load", 0)]

\* the page is the service's only client
NextPage ==
    \/ TypeForm
    \/ CancelEdit
    \/ \E c \in Clients : HandleSubmit(c)
    \/ \E c \in Clients : HandleSubmitDone(c)
    \/ \E c \in Clients : LoadBooks(c)
    \/ \E c \in Clients : LoadBooksDone(c)
    \/ \E c \in Clients : EditBook(c)
    \/ \E c \in Clients : EditBookDone(c)
    \/ \E c \in Clients : DeleteBook(c)
    \/ \E c \in Clients : DeleteBookDone(c)
    \/ \E c \in Clients : GetAllBooks(c)
    \/ \E c \in Clients : GetBookById(c)
    \/ \E c \in Clients : CreateBookInsert(c)
    \/ \E c \in Clients : CreateBookSelect(c)
    \/ \E c \in Clients : UpdateBookUpdate(c)
    \/ \E c \in Clients : UpdateBookSelect(c)
    \/ \E c \in Clients : DeleteBookSelect(c)
    \/ \E c \in Clients : DeleteBookDelete(c)

PageSpec == InitPage /\ [][NextPage]_vars

(* ------------------------------- claims -------------------------------- *)

\* the step in which connection c receives a request
Arrived(c) == nreq' = nreq + 1 /\ CanReceive(c)

\* the step in which the statement c is suspended on at `at` runs
Ran(c, at) == pc[c] = at /\ pc'[c] # at

\* the path value is the decimal text of i
Matches(idText, i) == <<idText, i>> \in IntegerLiterals

NoRowFor(idText) == ~ \E i \in DOMAIN books : Matches(idText, i)

\* a field that is missing from the body, or empty
Blank(v) == v.t = "undefined" \/ (v.t = "string" /\ v.s = "")

BlankRequest(r) ==
    /\ r.op \in {"post", "put"}
    /\ Blank(r.body.title) \/ Blank(r.body.author)

Answered(r, status, message) ==
    r.status = status /\ r.success = FALSE /\ r.message = message

\* C1: a POST or PUT whose title or author is missing or empty is answered
\* 400 'Title and author are required' in the step that receives it: the
\* handler is never suspended on a statement of the data-access layer, and
\* the table and the id sequence are as before
C1_BlankTitleOrAuthorIs400 ==
    [][\A c \in Clients :
         BlankRequest(req'[c]) =>
           /\ pc'[c] = "done"
           /\ Answered(resp'[c], 400, "Title and author are required")
           /\ Arrived(c) => (books' = books /\ seq' = seq)]_vars

C1_Witness ==
    \E c \in Clients :
        /\ req[c].op = "put"
        /\ req[c].body.author = Str("")
        /\ req[c].id = "3"
        /\ resp[c].status = 400

\* C2: an INSERT of a create whose isbn is a text that a row of the table
\* holds is answered 400 'ISBN already exists', and leaves the table as it was
C2_DuplicateIsbnCreateIs400 ==
    [][\A c \in Clients :
         ( /\ Ran(c, "insert")
           /\ req[c].body.isbn.t = "string"
           /\ \E i \in DOMAIN books : books[i].isbn = req[c].body.isbn )
         => /\ pc'[c] = "done"
            /\ Answered(resp'[c], 400, "ISBN already exists")
            /\ books' = books]_vars

C2_Witness ==
    \E c \in Clients :
        /\ req[c].op = "post"
        /\ resp[c].status = 400
        /\ resp[c].message = "ISBN already exists"

\* C3: an UPDATE of an existing row i whose isbn is a text that another row
\* holds is answered 400 'ISBN already exists', and row i keeps every value,
\* updated_at included
C3_DuplicateIsbnUpdateIs400 ==
    [][\A c \in Clients : \A i \in DOMAIN books :
         ( /\ Ran(c, "update")
           /\ Matches(req[c].id, i)
           /\ req[c].body.isbn.t = "string"
           /\ \E j \in DOMAIN books \ {i} : books[j].isbn = req[c].body.isbn )
         => /\ pc'[c] = "done"
            /\ Answered(resp'[c], 400, "ISBN already exists")
            /\ i \in DOMAIN books'
            /\ books'[i] = books[i]]_vars

C3_Witness ==
    \E c \in Clients :
        /\ req[c].op = "put"
        /\ req[c].id = "5"
        /\ 5 \in DOMAIN books
        /\ resp[c].status = 400
        /\ resp[c].message = "ISBN already exists"

\* C4: an UPDATE (title and author given) whose id matches no row is answered
\* 404 'Book not found' and leaves the table as it was: no row is added, none
\* is changed
C4_UpdateOfNoRowIs404 ==
    [][\A c \in Clients :
         (Ran(c, "update") /\ NoRowFor(req[c].id))
         => /\ pc'[c] = "done"
            /\ Answered(resp'[c], 404, "Book not found")
            /\ books' = books
            /\ seq' = seq]_vars

C4_Witness ==
    \E c \in Clients :
        /\ nreq = 1
        /\ req[c].op = "put"
        /\ req[c].id = "6"
        /\ resp[c].status = 404

\* C5: a get-by-id or a delete whose id matches no row (never assigned,
\* deleted, or no number) is answered 404 'Book not found' with success false,
\* and leaves the table as it was
C5_GetOrDeleteOfNoRowIs404 ==
    [][\A c \in Clients :
         ((Ran(c, "get") \/ Ran(c, "fetch")) /\ NoRowFor(req[c].id))
         => /\ pc'[c] = "done"
            /\ Answered(resp'[c], 404, "Book not found")
            /\ books' = books]_vars

C5_Witness ==
    \E c \in Clients :
        /\ req[c].op = "delete"
        /\ req[c].id = "3"
        /\ 3 \notin DOMAIN books
        /\ resp[c].status = 404

\* C6: with no other request in flight since it arrived, a delete of an
\* existing id fetches the row and then removes it: it answers 200 with
\* deletedBook the row as stored right before the DELETE, that row is gone,
\* every other row is as before; and a get-by-id of an id whose row was
\* deleted is answered 404
C6_DeleteReturnsSnapshot ==
    [][\A c \in Clients :
         /\ (Ran(c, "fetch") /\ solo[c] /\ ~NoRowFor(req[c].id))
            => pc'[c] = "remove"
         /\ (Ran(c, "remove") /\ solo[c])
            => \E i \in DOMAIN books :
                 /\ Matches(req[c].id, i)
                 /\ resp'[c].status = 200
                 /\ resp'[c].success
                 /\ resp'[c].kind = "deletedBook"
                 /\ resp'[c].data = <<books[i]>>
                 /\ DOMAIN books' = DOMAIN books \ {i}
                 /\ \A j \in DOMAIN books' : books'[j] = books[j]
         /\ \A i \in 1..seq :
              (Ran(c, "get") /\ Matches(req[c].id, i) /\ i \notin DOMAIN books)
              => Answered(resp'[c], 404, "Book not found")]_vars

C6_Witness ==
    \E c \in Clients :
        /\ nreq = 1
        /\ req[c].op = "delete"
        /\ resp[c].status = 200
        /\ resp[c].kind = "deletedBook"
        /\ resp[c].data = <<SeededTable[3]>>
        /\ DOMAIN books = {1, 2, 4}

\* the six business fields of a body, a field left out read as null
OmittedAsNull(b) ==
    LET f(v) == IF v.t = "undefined" THEN Null ELSE v
    IN [title |-> f(b.title), author |-> f(b.author), isbn |-> f(b.isbn),
        published_year |-> f(b.published_year), genre |-> f(b.genre),
        description |-> f(b.description)]

\* a get-by-id of id i, created with the body sent[i].body and returned by
\* its create, with no update or delete of the row since its INSERT, gives
\* the six fields that were sent and the record the create returned
RoundTrip(c, i) ==
    /\ resp'[c].status = 200
    /\ resp'[c].success
    /\ resp'[c].kind = "book"
    /\ Len(resp'[c].data) = 1
    /\ BusinessFields(resp'[c].data[1]) = OmittedAsNull(sent[i].body)
    /\ resp'[c].data[1].id = i
    /\ resp'[c].data[1].created_at \in 0..now
    /\ resp'[c].data[1].updated_at \in 0..now
    /\ resp'[c].data = sent[i].returned

\* every field of the body has the type of its column: texts, and an integer
\* year, or null, or left out
ColumnTyped(b) ==
    /\ \A v \in {b.title, b.author, b.isbn, b.genre, b.description} :
          v.t \in {"string", "null", "undefined"}
    /\ b.published_year.t \in {"number", "null", "undefined"}

\* C7 as claimed: the round trip returns the fields as they were sent,
\* whatever was sent
C7_RoundTripAnyBody ==
    [][\A c \in Clients : \A i \in DOMAIN sent :
         (Ran(c, "get") /\ Matches(req[c].id, i) /\ sent[i].returned # <<>>)
         => RoundTrip(c, i)]_vars

\* C7 amended: the round trip returns the fields as they were sent when each
\* was sent in the type of its column (a year sent as a numeric text comes
\* back as the integer)
C7_RoundTripColumnTyped ==
    [][\A c \in Clients : \A i \in DOMAIN sent :
         ( /\ Ran(c, "get")
           /\ Matches(req[c].id, i)
           /\ sent[i].returned # <<>>
           /\ ColumnTyped(sent[i].body) )
         => RoundTrip(c, i)]_vars

C7_Witness ==
    \E c \in Clients :
        /\ req[c].op = "get"
        /\ req[c].id = "5"
        /\ resp[c].status = 200
        /\ 5 \in DOMAIN sent
        /\ sent[5].body.isbn = Undef
        /\ resp[c].data = sent[5].returned
        /\ resp[c].data[1].isbn = Null

NoIsbn(b) == b.isbn.t \in {"undefined", "null"}

\* C8: a create with title and author and no isbn always succeeds: its INSERT
\* assigns a new id whatever rows hold a null isbn, and its answer is 201
\* with a record that has that id and isbn null
C8_CreateWithoutIsbnReturnsRecord ==
    [][\A c \in Clients :
         /\ (Ran(c, "insert") /\ NoIsbn(req[c].body))
            => /\ pc'[c] = "reread"
               /\ local'[c].lastID \notin 1..seq
               /\ local'[c].lastID \in DOMAIN books' \ DOMAIN books
         /\ (Ran(c, "reread") /\ NoIsbn(req[c].body))
            => /\ resp'[c].status = 201
               /\ resp'[c].success
               /\ resp'[c].kind = "book"
               /\ Len(resp'[c].data) = 1
               /\ resp'[c].data[1].id = local[c].lastID
               /\ resp'[c].data[1].isbn = Null]_vars

\* C9: every list places a row created later (a larger id) before a row
\* created earlier
C9_ListNewestFirst ==
    \A c \in Clients :
        (pc[c] = "done" /\ req[c].op = "list" /\ resp[c].status = 200)
        => \A p, q \in 1..Len(resp[c].data) :
             resp[c].data[p].id > resp[c].data[q].id => p < q

\* C10: a list is answered 200 with exactly the rows of the table, each once,
\* and total their number; on an empty table data is [] and total 0
C10_ListReturnsTable ==
    [][\A c \in Clients :
         Ran(c, "all")
         => /\ pc'[c] = "done"
            /\ resp'[c].status = 200
            /\ resp'[c].success
            /\ resp'[c].kind = "books"
            /\ {resp'[c].data[k] : k \in 1..Len(resp'[c].data)}
                 = {books[i] : i \in DOMAIN books}
            /\ Len(resp'[c].data) = Cardinality(DOMAIN books)
            /\ resp'[c].total = Len(resp'[c].data)
            /\ (DOMAIN books = {}) => (resp'[c].data = <<>> /\ resp'[c].total = 0)
            /\ books' = books]_vars

C10_Witness ==
    \E c \in Clients :
        /\ req[c].op = "list"
        /\ pc[c] = "done"
        /\ resp[c].status = 200
        /\ resp[c].data = <<>>
        /\ resp[c].total = 0
        /\ DOMAIN books = {}

\* the ids of the rows a response carries
IdsIn(r) == {r.data[k].id : k \in 1..Len(r.data)}

\* C11: the id an INSERT gives its row is larger than every id assigned before
\* (the ids of the rows in the table, of the rows deleted since, of every row
\* a response has carried); the ids assigned are never forgotten, and a row
\* keeps its id for as long as it is in the table
C11_NewIdNeverAssignedBefore ==
    [][/\ \A c \in Clients :
            (Ran(c, "insert") /\ pc'[c] = "reread")
            => LET id == local'[c].lastID
               IN /\ \A k \in 1..seq : k < id
                  /\ \A k \in DOMAIN books : k < id
                  /\ \A d \in Clients : id \notin IdsIn(resp[d])
                  /\ DOMAIN books' = DOMAIN books \cup {id}
                  /\ seq' = id
       /\ seq' >= seq
       /\ DOMAIN books' \subseteq 1..seq'
       /\ \A i \in DOMAIN books' : books'[i].id = i]_vars

\* the table was emptied (ids 1 to 4 were assigned and their rows deleted), and
\* the next create is given id 5
C11_Witness ==
    \E c \in Clients :
        /\ req[c].op = "post"
        /\ resp[c].status = 201
        /\ IdsIn(resp[c]) = {5}
        /\ DOMAIN books = {5}
        /\ seq = 5

\* C12: no two rows of the table hold the same isbn, unless it is null
C12_IsbnUnique ==
    \A i, j \in DOMAIN books :
        (i # j /\ books[i].isbn.t # "null") => books[i].isbn # books[j].isbn

\* a create and an update of row 3 carried the same new isbn; the update got
\* it and the create was refused
C12_Witness ==
    \E c \in Clients :
        /\ 3 \in DOMAIN books
        /\ books[3].isbn = Str("978-0-441-17271-9")
        /\ req[c].op = "post"
        /\ req[c].body.isbn = books[3].isbn
        /\ resp[c].status = 400
        /\ resp[c].message = "ISBN already exists"

\* C13: an UPDATE that changes row i leaves the id and created_at of row i as
\* they were, adds and removes no row, and leaves every other row and the id
\* sequence as they were; the re-read that follows changes nothing
C13_UpdateKeepsIdCreatedAtAndOtherRows ==
    [][\A c \in Clients :
         /\ \A i \in DOMAIN books :
              (Ran(c, "update") /\ pc'[c] = "refetch" /\ Matches(req[c].id, i))
              => /\ DOMAIN books' = DOMAIN books
                 /\ books'[i].id = i
                 /\ books'[i].created_at = books[i].created_at
                 /\ \A j \in DOMAIN books \ {i} : books'[j] = books[j]
                 /\ seq' = seq
         /\ Ran(c, "refetch") => (books' = books /\ seq' = seq)]_vars

\* row 3, created at second 0, was updated at second 1
C13_Witness ==
    \E c \in Clients :
        /\ req[c].op = "put"
        /\ req[c].id = "3"
        /\ resp[c].status = 200
        /\ DOMAIN books = {1, 2, 3, 4}
        /\ books[3].title = req[c].body.title
        /\ books[3].created_at = 0
        /\ books[3].updated_at = 1
        /\ \A j \in {1, 2, 4} : books[j] = SeededTable[j]

\* the value a column holds for the value v a request gave: null for a field
\* left out or null, the value itself otherwise
Overwritten(stored, v) ==
    IF v.t \in {"undefined", "null"} THEN stored = Null ELSE stored = v

\* C14: an UPDATE that changes row i overwrites the six business fields with
\* the values of the request and nothing of the old row: title and author as
\* given; isbn, published_year, genre and description as given, and null where
\* the body leaves them out, whatever row i held (a year given as a numeric
\* text is held as that number, the column being INTEGER)
C14_UpdateOverwritesAllSixFields ==
    [][\A c \in Clients : \A i \in DOMAIN books :
         (Ran(c, "update") /\ pc'[c] = "refetch" /\ Matches(req[c].id, i))
         => LET b == req[c].body
                r == books'[i]
            IN /\ r.title = b.title
               /\ r.author = b.author
               /\ Overwritten(r.isbn, b.isbn)
               /\ Overwritten(r.genre, b.genre)
               /\ Overwritten(r.description, b.description)
               /\ IF b.published_year.t = "string"
                  THEN /\ r.published_year.t = "number"
                       /\ <<b.published_year.s, r.published_year.n>>
                              \in IntegerLiterals
                  ELSE Overwritten(r.published_year, b.published_year)]_vars

\* the sample '1984', which had all six fields, after a PUT of title and
\* author only
C14_Witness ==
    \E c \in Clients :
        /\ req[c].op = "put"
        /\ req[c].id = "3"
        /\ req[c].body.isbn = Undef
        /\ resp[c].status = 200
        /\ 3 \in DOMAIN books
        /\ books[3].title = Str("Minimal Test Book")
        /\ books[3].isbn = Null
        /\ books[3].published_year = Null
        /\ books[3].genre = Null
        /\ books[3].description = Null
        /\ resp[c].data = <<books[3]>>

\* C15: the clock of the store never goes back; an INSERT gives its row a
\* created_at and an updated_at that both are the store's time; an UPDATE
\* that changes a row sets its updated_at to the store's time; and in every
\* state every row has updated_at >= created_at, neither later than the clock
C15_UpdatedAtNotBeforeCreatedAt ==
    /\ [](\A i \in DOMAIN books :
             /\ books[i].created_at <= books[i].updated_at
             /\ books[i].updated_at <= now)
    /\ [][/\ now' >= now
          /\ \A c \in Clients :
               /\ (Ran(c, "insert") /\ pc'[c] = "reread")
                  => LET r == books'[local'[c].lastID]
                     IN r.created_at = now /\ r.updated_at = now
               /\ \A i \in DOMAIN books :
                    ( /\ Ran(c, "update")
                      /\ pc'[c] = "refetch"
                      /\ Matches(req[c].id, i) )
                    => /\ books'[i].updated_at = now
                       /\ books'[i].created_at = books[i].created_at]_vars

\* row 3 of second 0 was updated at second 1, and row 5 was created at second 1
C15_Witness ==
    /\ now = 1
    /\ {3, 5} \subseteq DOMAIN books
    /\ books[3].created_at = 0
    /\ books[3].updated_at = 1
    /\ books[5].created_at = 1
    /\ books[5].updated_at = 1

\* C16: when a delete of an id has been answered 200 and another delete of the
\* same id has fetched the row before that (both fetches ran before either
\* DELETE), the DELETE of the second finds no row and changes nothing, and the
\* second is answered 200 'Book deleted successfully' as well, with the row
\* of that id it had fetched as deletedBook
C16_SecondDeleteAlsoAnswered200 ==
    [][\A c, d \in Clients :
         ( /\ c # d
           /\ Ran(c, "remove")
           /\ req[d].op = "delete"
           /\ req[d].id = req[c].id
           /\ pc[d] = "done"
           /\ resp[d].status = 200 )
         => /\ NoRowFor(req[c].id)
            /\ books' = books
            /\ resp'[c].status = 200
            /\ resp'[c].success
            /\ resp'[c].message = "Book deleted successfully"
            /\ resp'[c].kind = "deletedBook"
            /\ resp'[c].data = local[c].book
            /\ IdsIn(resp'[c]) = IdsIn(resp[d])]_vars

\* two deletes of the sample '1984', both answered 200 with the same
\* deletedBook; one row is gone
C16_Witness ==
    /\ \A c \in Clients :
          /\ pc[c] = "done"
          /\ req[c].op = "delete"
          /\ req[c].id = "3"
          /\ resp[c].status = 200
          /\ resp[c].message = "Book deleted successfully"
          /\ resp[c].data = <<SeededTable[3]>>
    /\ DOMAIN books = {1, 2, 4}

\* C17: a PUT is answered 404 only by an UPDATE that matched no row; a PUT
\* whose UPDATE changed a row is answered 200 'Book updated successfully' with
\* the row of its id, whatever ran between the UPDATE and the re-read
C17_NotFoundOnlyWhenNoRowChanged ==
    [][\A c \in Clients :
         /\ (req'[c].op = "put" /\ pc[c] # "done" /\ pc'[c] = "done"
                /\ resp'[c].status = 404)
            => (Ran(c, "update") /\ NoRowFor(req[c].id))
         /\ Ran(c, "refetch")
            => /\ resp'[c].status = 200
               /\ resp'[c].success
               /\ resp'[c].message = "Book updated successfully"
               /\ resp'[c].kind = "book"
               /\ \E i \in IdsIn(resp'[c]) : Matches(req[c].id, i)]_vars

\* C18: every 201 of a create carries one record, the row its INSERT wrote:
\* the id the INSERT assigned, the title and author that were submitted, the
\* optional fields null where the body left them out, and both timestamps the
\* second of the INSERT, whatever ran between the INSERT and the re-read
C18_CreatedResponseCarriesInsertedRow ==
    [][\A c \in Clients :
         (pc[c] # "done" /\ pc'[c] = "done" /\ resp'[c].status = 201)
         => /\ resp'[c].message = "Book created successfully"
            /\ resp'[c].kind = "book"
            /\ IdsIn(resp'[c]) = {local[c].lastID}
            /\ \A k \in 1..Len(resp'[c].data) :
                 LET r == resp'[c].data[k]
                     b == req[c].body
                 IN /\ r.title = b.title
                    /\ r.author = b.author
                    /\ Overwritten(r.isbn, b.isbn)
                    /\ Overwritten(r.genre, b.genre)
                    /\ Overwritten(r.description, b.description)
                    /\ r.created_at = r.updated_at
                    /\ r.created_at <= now]_vars

\* the status codes the handlers write
StatusCodes == {200, 201, 400, 404, 500}

\* C19: on a store whose statements may fail with any error, every request
\* is answered: its handler ends with a response that has a status; nothing
\* is written while the handler waits for the store, the response is written
\* in the step that ends the handler, and it stays as written until the
\* connection takes its next request
C19_EveryRequestAnsweredOnce ==
    /\ \A c \in Clients :
          InFlight(c) ~> (pc[c] = "done" /\ resp[c].status \in StatusCodes)
    /\ [](\A c \in Clients :
             /\ InFlight(c) => resp[c] = NoResponse
             /\ pc[c] = "done" => resp[c].status \in StatusCodes)
    /\ [][\A c \in Clients :
             (pc[c] = "done" /\ ~Arrived(c))
             => (pc'[c] = "done" /\ resp'[c] = resp[c])]_vars

\* a create whose INSERT went through and whose re-read failed is answered
\* 500, and a list whose SELECT failed is answered 500
C19_Witness ==
    \E c, d \in Clients :
        /\ pc[c] = "done"
        /\ req[c].op = "post"
        /\ resp[c].status = 500
        /\ resp[c].error = "SQLITE_IOERR: disk I/O error"
        /\ 5 \in DOMAIN books
        /\ books[5].title = req[c].body.title
        /\ pc[d] = "done"
        /\ req[d].op = "list"
        /\ resp[d].status = 500

\* the message of the 500 of each endpoint
GenericMessage(op) ==
    CASE op = "list" -> "Error retrieving books"
      [] op = "get" -> "Error retrieving book"
      [] op = "post" -> "Error creating book"
      [] op = "put" -> "Error updating book"
      [] op = "delete" -> "Error deleting book"
      [] OTHER -> ""

\* C20: at the end of every handler: the answer is 400 'ISBN already exists'
\* exactly when a create or update got the store's uniqueness error on isbn
\* (and then a row of the table holds the isbn of the request); every other
\* error of the store is answered 500 with the generic message of the
\* endpoint and the error's text in error; a 500 is given for nothing else;
\* and the statement that failed changed nothing and ends the handler (no
\* statement follows it)
C20_StoreFailureMapping ==
    [][\A c \in Clients :
         /\ (pc[c] # "done" /\ pc'[c] = "done")
            => LET e == local'[c].error
                   r == resp'[c]
                   unique ==
                       e = "SQLITE_CONSTRAINT: UNIQUE constraint failed: books.isbn"
               IN /\ (r.status = 400 /\ r.message = "ISBN already exists")
                       <=> (unique /\ req[c].op \in {"post", "put"})
                  /\ unique
                       => /\ req[c].body.isbn.t = "string"
                          /\ \E i \in DOMAIN books :
                                books[i].isbn = req[c].body.isbn
                  /\ (e # "" /\ ~unique)
                       => /\ r.status = 500
                          /\ ~r.success
                          /\ r.message = GenericMessage(req[c].op)
                          /\ r.message # ""
                          /\ r.error = e
                          /\ r.kind = "none"
                  /\ r.status = 500 => (e # "" /\ ~unique)
                  /\ e # "" => (books' = books /\ seq' = seq)
         /\ local'[c].error # "" => pc'[c] = "done"]_vars

\* an update that failed on a busy store, answered 500, next to a create
\* refused for its isbn, answered 400
C20_Witness ==
    \E c, d \in Clients :
        /\ pc[c] = "done"
        /\ req[c].op = "put"
        /\ resp[c].status = 500
        /\ resp[c].message = "Error updating book"
        /\ resp[c].error = "SQLITE_BUSY: database is locked"
        /\ pc[d] = "done"
        /\ req[d].op = "post"
        /\ resp[d].status = 400
        /\ resp[d].message = "ISBN already exists"
        /\ local[d].error # ""

\* the body of the example: {title '1984', author 'George Orwell',
\* isbn '978-0-452-28423-4'}
ExampleBody ==
    Body(Str("1984"), Str("George Orwell"), Str("978-0-452-28423-4"), Undef,
         Undef, Undef)

\* C21 as claimed: the POST of the example body, the first request the running
\* service gets, is answered 201 with data.id set and data.title '1984'
C21_ExamplePostIs201 ==
    \A c \in Clients :
        ( /\ nreq = 1
          /\ pc[c] = "done"
          /\ req[c].op = "post"
          /\ req[c].body = ExampleBody )
        => /\ resp[c].status = 201
           /\ IdsIn(resp[c]) # {}
           /\ \A k \in 1..Len(resp[c].data) : resp[c].data[k].title = Str("1984")

\* C21 amended: on a table in which no row holds the isbn of the example (the
\* seeded service holds it in the sample '1984'), the INSERT of the example
\* body writes a row with a new id and the title '1984', and with no other
\* request in flight the POST is answered 201 with that id and title; on a
\* table in which a row holds the isbn, a POST with it is answered 400
\* {success false, message 'ISBN already exists'}
C21_ExamplePostOnFreeIsbn ==
    [][\A c \in Clients :
         LET held == \E i \in DOMAIN books : books[i].isbn = ExampleBody.isbn
         IN /\ (Ran(c, "insert") /\ req[c].body = ExampleBody /\ ~held)
               => /\ pc'[c] = "reread"
                  /\ local'[c].lastID \in DOMAIN books' \ DOMAIN books
                  /\ books'[local'[c].lastID].title = Str("1984")
            /\ (Ran(c, "reread") /\ req[c].body = ExampleBody /\ solo[c])
               => /\ resp'[c].status = 201
                  /\ resp'[c].success
                  /\ IdsIn(resp'[c]) = {local[c].lastID}
                  /\ local[c].lastID > 0
                  /\ resp'[c].data[1].title = Str("1984")
            /\ (Ran(c, "insert") /\ req[c].body.isbn = ExampleBody.isbn /\ held)
               => /\ pc'[c] = "done"
                  /\ Answered(resp'[c], 400, "ISBN already exists")]_vars

\* the sample '1984' was deleted; the first POST of the example was answered
\* with the record of id 5, the second POST is answered 400
C21_Witness ==
    \E c \in Clients :
        /\ nreq = 2
        /\ pc[c] = "done"
        /\ req[c].op = "post"
        /\ req[c].body = ExampleBody
        /\ resp[c].status = 400
        /\ resp[c].message = "ISBN already exists"
        /\ 3 \notin DOMAIN books
        /\ 5 \in DOMAIN sent
        /\ sent[5].body = ExampleBody
        /\ sent[5].returned = <<books[5]>>

\* row r holds what the body b asks for in each of the six fields
Holds(r, b) ==
    /\ r.title = b.title
    /\ r.author = b.author
    /\ Overwritten(r.isbn, b.isbn)
    /\ Overwritten(r.genre, b.genre)
    /\ Overwritten(r.description, b.description)
    /\ IF b.published_year.t = "string"
       THEN /\ r.published_year.t = "number"
            /\ <<b.published_year.s, r.published_year.n>> \in IntegerLiterals
       ELSE Overwritten(r.published_year, b.published_year)

\* C22: an UPDATE of row i that carries the isbn row i holds is not refused;
\* the PUT it belongs to is answered 200 'Book updated successfully'; and an
\* UPDATE of a row that holds the request's six values already (the same
\* update was made before) leaves the six business fields as they are
C22_OwnIsbnUpdateIs200 ==
    [][\A c \in Clients :
         /\ \A i \in DOMAIN books :
              ( /\ Ran(c, "update")
                /\ Matches(req[c].id, i)
                /\ Overwritten(books[i].isbn, req[c].body.isbn) )
              => /\ pc'[c] = "refetch"
                 /\ Holds(books'[i], req[c].body)
                 /\ Holds(books[i], req[c].body)
                      => BusinessFields(books'[i]) = BusinessFields(books[i])
         /\ ( /\ Ran(c, "refetch")
              /\ prior[c] # <<>>
              /\ Overwritten(prior[c][1].isbn, req[c].body.isbn) )
            => /\ resp'[c].status = 200
               /\ resp'[c].success
               /\ resp'[c].message = "Book updated successfully"]_vars

\* C23: every response a handler has written has status 200, 201, 400, 404
\* or 500; success is true exactly for 200 and 201; a 400, 404 or 500 has
\* success false and a message; and an error text is carried by a 500 only
C23_ResponseEnvelope ==
    \A c \in Clients :
        pc[c] = "done"
        => /\ resp[c].status \in {200, 201, 400, 404, 500}
           /\ resp[c].success <=> resp[c].status \in {200, 201}
           /\ resp[c].status \in {400, 404, 500}
                => (~resp[c].success /\ resp[c].message # "")
           /\ resp[c].error # "" => resp[c].status = 500
           /\ resp[c].status = 500 => resp[c].error # ""

\* a 404 of a get next to a 500 of a delete whose statement failed
C23_Witness ==
    \E c, d \in Clients :
        /\ pc[c] = "done"
        /\ req[c].op = "get"
        /\ resp[c].status = 404
        /\ resp[c].error = ""
        /\ pc[d] = "done"
        /\ req[d].op = "delete"
        /\ resp[d].status = 500
        /\ resp[d].message = "Error deleting book"
        /\ resp[d].error # ""

\* C24: when the only two requests of a run are creates that overlap and
\* carry the same isbn, a text that no row of the table held, then once both
\* are answered one has 201 and the other 400 'ISBN already exists', and
\* one row holds that isbn
C24_ConcurrentCreatesSameIsbn ==
    \A c, d \in Clients :
        ( /\ c # d
          /\ nreq = 2
          /\ pc[c] = "done" /\ req[c].op = "post" /\ ~MissingRequired(req[c].body)
          /\ pc[d] = "done" /\ req[d].op = "post" /\ ~MissingRequired(req[d].body)
          /\ req[c].body.isbn.t = "string"
          /\ req[c].body.isbn = req[d].body.isbn
          /\ ~ \E i \in DOMAIN books :
                 i <= Len(sampleBooks) /\ books[i].isbn = req[c].body.isbn )
        => /\ {resp[c].status, resp[d].status} = {201, 400}
           /\ resp[c].status = 400
                => Answered(resp[c], 400, "ISBN already exists")
           /\ Cardinality({i \in DOMAIN books :
                             books[i].isbn = req[c].body.isbn}) = 1

\* two creates of 'Dune' overlapped: the second connection got the row, the
\* first was refused
C24_Witness ==
    /\ nreq = 2
    /\ \A c \in Clients :
          /\ pc[c] = "done"
          /\ req[c].op = "post"
          /\ req[c].body.isbn = Str("978-0-441-17271-9")
    /\ resp[1].status = 400
    /\ resp[1].message = "ISBN already exists"
    /\ resp[2].status = 201
    /\ IdsIn(resp[2]) = {5}
    /\ 5 \in DOMAIN books
    /\ 6 \notin DOMAIN books

\* C25: the deletedBook of a delete answered 200 whose DELETE removed a row is
\* that row as it was when the DELETE ran, whatever ran between the fetch and
\* the DELETE
C25_DeletedBookIsRowRemoved ==
    [][\A c \in Clients :
         ( /\ Ran(c, "remove")
           /\ SelectById(books, req[c].id) # <<>>
           /\ SelectById(books', req[c].id) = <<>> )
         => /\ resp'[c].status = 200
            /\ resp'[c].kind = "deletedBook"
            /\ resp'[c].data = SelectById(books, req[c].id)]_vars

\* C27: a PUT whose body has a missing or empty title or author has the
\* answer 400 'Title and author are required', whether or not a row of its id
\* exists: it is never 404 and it never waits for a statement
C27_ValidationBeforeExistence ==
    \A c \in Clients :
        (req[c].op = "put" /\ BlankRequest(req[c]))
        => /\ pc[c] = "done"
           /\ Answered(resp[c], 400, "Title and author are required")

\* a PUT without title and author for an id that has no row, answered 400
C27_Witness ==
    \E c \in Clients :
        /\ pc[c] = "done"
        /\ req[c].op = "put"
        /\ req[c].id = "6"
        /\ NoRowFor("6")
        /\ BlankRequest(req[c])
        /\ Answered(resp[c], 400, "Title and author are required")

\* the rows of the table, other than the row self, that hold the isbn
HoldersOf(isbn, self) == {i \in DOMAIN books \ {self} : books[i].isbn = isbn}

\* C28: an isbn is taken only while a row holds it. An INSERT whose isbn no
\* row holds at that moment stores its row and the create is answered 201; an
\* UPDATE of a row whose isbn no other row holds at that moment writes the row
\* and, when no other request overlaps it, the update is answered 200 --
\* whichever rows held that isbn before they were deleted or given another
C28_FreedIsbnUsable ==
    [][\A c \in Clients :
         LET isbn == BindParam(req[c].body.isbn)
             hit == SelectById(books, req[c].id)
         IN /\ (Ran(c, "insert") /\ HoldersOf(isbn, 0) = {})
               => /\ pc'[c] = "reread"
                  /\ local'[c].lastID \in DOMAIN books'
                  /\ books'[local'[c].lastID].isbn = isbn
            /\ Ran(c, "reread")
               => resp'[c].status = 201 /\ resp'[c].success
            /\ (Ran(c, "update") /\ hit # <<>> /\ HoldersOf(isbn, hit[1].id) = {})
               => /\ pc'[c] = "refetch"
                  /\ books'[hit[1].id].isbn = isbn
            /\ (Ran(c, "refetch") /\ solo[c])
               => resp'[c].status = 200 /\ resp'[c].success]_vars

\* the sample '1984' was deleted and a create with its isbn was then answered
\* 201: the new row 5 holds the isbn
C28_Witness ==
    \E c \in Clients :
        /\ pc[c] = "done"
        /\ req[c].op = "post"
        /\ req[c].body.isbn = sampleBooks[3].isbn
        /\ resp[c].status = 201
        /\ 3 \notin DOMAIN books
        /\ 5 \in DOMAIN books
        /\ books[5].isbn = sampleBooks[3].isbn
        /\ nreq = 2

\* the rows of the table that hold the six values of sample k
RowsOfSample(k) ==
    {i \in DOMAIN books : BusinessFields(books[i]) = StoredFields(sampleBooks[k])}

\* C26: the start inserts samples if and only if the COUNT read 0. When it
\* read another number the start is over and has added no row (with no
\* request received, the kept table is as it was); when it read 0 the samples
\* are inserted one by one, and with no request received the start ends with
\* four rows, one for each sample, holding four different isbns
C26_SeedsIffTableEmpty ==
    /\ boot.count > 0
       => /\ boot.at = "ready"
          /\ boot.added = 0
          /\ nreq = 0 => (books = KeptTable /\ seq = Len(sampleBooks))
    /\ boot.at = "seed" => boot.count = 0
    /\ boot.added > 0 => boot.count = 0
    /\ boot.count = 0 => boot.at \in {"seed", "ready", "crashed"}
    /\ (boot.count = 0 /\ nreq = 0)
       => /\ boot.at # "crashed"
          /\ Cardinality(DOMAIN books) = boot.added
          /\ boot.at = "seed" => boot.added = boot.k - 1
          /\ boot.at = "ready"
             => /\ boot.added = Len(sampleBooks)
                /\ \A k \in 1..Len(sampleBooks) :
                      Cardinality(RowsOfSample(k)) = 1
                /\ Cardinality({books[i].isbn : i \in DOMAIN books})
                      = Len(sampleBooks)

\* a start on an emptied database file is over before any request: the four
\* samples are the rows 5 to 8
C26_Witness ==
    /\ boot.at = "ready"
    /\ boot.count = 0
    /\ nreq = 0
    /\ DOMAIN books = {5, 6, 7, 8}
    /\ RowsOfSample(3) = {7}

\* the step in which the page takes the response it awaited on c as op
Took(c, op) ==
    /\ page.waits[c].op = op
    /\ pc[c] = "done"
    /\ page'.waits[c] # page.waits[c]

\* C29: a submit sends PUT /api/books/<editingId> with the form's data when
\* editingId is set and POST /api/books with it otherwise; a step that clears
\* editingId is the Cancel button or the page taking a successful response
\* to a submit; and the page taking a rejection of a submit leaves editingId
\* and the form as they are
C29_SubmitFollowsEditingId ==
    [][/\ \A c \in Clients :
            (page.waits[c].op = "none" /\ page'.waits[c].op = "submit")
            => /\ req'[c] = IF page.editingId # 0
                            THEN Request("put", NumberText(page.editingId),
                                         FormData(page.form))
                            ELSE Request("post", "", FormData(page.form))
               /\ nreq' = nreq + 1
               /\ page'.editingId = page.editingId
               /\ page'.form = page.form
       /\ (page.editingId # 0 /\ page'.editingId = 0)
          => \/ CancelEdit
             \/ \E c \in Clients : Took(c, "submit") /\ resp[c].success
       /\ \A c \in Clients :
            (Took(c, "submit") /\ ~resp[c].success)
            => /\ page'.editingId = page.editingId
               /\ page'.form = page.form
               /\ nreq' = nreq]_vars

\* the sample '1984' is being edited, the author was deleted from the form
\* and the submit, a PUT to id 3, was rejected with 400: the page still edits
\* 3 and the form is as typed
C29_Witness ==
    /\ page.editingId = 3
    /\ page.form = Form("Another Test Book", "", "", "", "", "")
    /\ \E c \in Clients :
          /\ req[c] = Request("put", "3", FormData(page.form))
          /\ pc[c] = "done"
          /\ Answered(resp[c], 400, "Title and author are required")
          /\ page.waits[c] = NoAwait

\* C30: editingId, when not null, is the id of a row of the table, and no
\* submit in edit mode is answered 404 'Book not found'
C30_EditingIdNamesStoredBook ==
    /\ page.editingId # 0 => page.editingId \in DOMAIN books
    /\ \A c \in Clients :
          (page.waits[c].op = "submit" /\ req[c].op = "put" /\ pc[c] = "done")
          => ~Answered(resp[c], 404, "Book not found")

====
